---- MODULE Spec2Model ----
(***************************************************************************)
(* PitchMix: the ingestion of pitch-by-pitch source files into the store   *)
(* (backend/etl/load_pitches.py) and the query handlers that read it       *)
(* (backend/api/main.py).                                                  *)
(*                                                                         *)
(* Representation.  A Python Optional value is a set with at most one      *)
(* element: None is {} and a value v is {v}.  A string that the code       *)
(* parses (a header name, an integer or a real in a cell) is a sequence of *)
(* one-character strings; a string that the code only tests and copies     *)
(* is a TLA+ string.  A real read from a cell is kept in tenths.           *)
(***************************************************************************)
EXTENDS Integers, Sequences, FiniteSets, TLC

VARIABLES
    pitchers,   \* table pitchers as the ingestion connection sees (last saw) it; the row id is the index
    pitches,    \* table pitches as the ingestion connection sees (last saw) it, in row id order
    disk,       \* the committed tables: what every other connection reads
    pc,         \* main's position: "idle", "file", "rows", "done", "aborted"
    files,      \* main: source files still to process in this run
    header,     \* process_csv: reader.fieldnames of the open file
    cols,       \* process_csv: the column found for each field of the open file
    rejected,   \* whether the row read last failed a required-value check
    call,       \* the get_or_create_pitcher call of the row read last and the id it returned
    nrows,      \* rows read in this run
    fileBase,   \* number of events in the table when the open file was opened
    passed,     \* rows of the open file that passed the three required-value checks
    accepted,   \* the same count over every file of the run
    first,      \* external id -> name and hand given at the first resolve call for it
    resp,       \* the response of the last request served
    qlog        \* the store queries the last request issued, in order

vars == <<pitchers, pitches, disk, pc, files, header, cols, rejected, call, nrows, fileBase,
          passed, accepted, first, resp, qlog>>

etl == <<pitchers, pitches, disk, pc, files, header, cols, rejected, call, nrows, fileBase,
         passed, accepted, first>>

None == {}

Some(v) == {v}

The(o) == CHOOSE v \in o : TRUE

\* Python's `x or d` for an Optional string: d when x is None or empty.
OrElse(o, d) == IF o = None \/ o = Some("") THEN d ELSE The(o)

MaxFiles == 2

MaxRows == 3

(***************************************************************************)
(* Cell and header text                                                    *)
(***************************************************************************)
Digits == {"0", "1", "2", "3", "4", "5", "6", "7", "8", "9"}

DigitVal(c) ==
    CASE c = "0" -> 0 [] c = "1" -> 1 [] c = "2" -> 2 [] c = "3" -> 3
      [] c = "4" -> 4 [] c = "5" -> 5 [] c = "6" -> 6 [] c = "7" -> 7
      [] c = "8" -> 8 [] c = "9" -> 9

RECURSIVE LStrip(_, _)
LStrip(s, drop) ==
    IF s # <<>> /\ Head(s) \in drop THEN LStrip(Tail(s), drop) ELSE s

RECURSIVE RStrip(_, _)
RStrip(s, drop) ==
    IF s # <<>> /\ s[Len(s)] \in drop
    THEN RStrip(SubSeq(s, 1, Len(s) - 1), drop)
    ELSE s

\* str.strip(chars)
Strip(s, drop) == RStrip(LStrip(s, drop), drop)

RECURSIVE DigitsValue(_)
DigitsValue(s) ==
    IF s = <<>> THEN 0
    ELSE 10 * DigitsValue(SubSeq(s, 1, Len(s) - 1)) + DigitVal(s[Len(s)])

AllDigits(s) == s # <<>> /\ \A i \in 1..Len(s) : s[i] \in Digits

\* to_int with a slip: blank text read as 0 instead of refused.
to_int_blank_zero(val) ==
    IF val = None THEN None
    ELSE LET s == Strip(The(val), {" "})
         IN  IF s = <<>> THEN Some(0)
             ELSE IF AllDigits(s) THEN Some(DigitsValue(s)) ELSE None

\* int(val) guarded by except (TypeError, ValueError): None for None and for any
\* text that is not, after surrounding blanks, an optional sign and digits.
to_int(val) ==
    IF val = None THEN None
    ELSE LET s == Strip(The(val), {" "})
             neg == s # <<>> /\ Head(s) = "-"
             body == IF s # <<>> /\ Head(s) \in {"-", "+"} THEN Tail(s) ELSE s
         IN  IF AllDigits(body)
             THEN Some(IF neg THEN 0 - DigitsValue(body) ELSE DigitsValue(body))
             ELSE None

\* float(val) if val not in ("", None) else None, guarded by except; the value in
\* tenths.  Cells carry at most one digit after the point.
to_float(val) ==
    IF val = None \/ val = Some(<<>>) THEN None
    ELSE LET s == Strip(The(val), {" "})
             neg == s # <<>> /\ Head(s) = "-"
             body == IF s # <<>> /\ Head(s) \in {"-", "+"} THEN Tail(s) ELSE s
             dots == {i \in 1..Len(body) : body[i] = "."}
             ip == IF dots = {} THEN body ELSE SubSeq(body, 1, The(dots) - 1)
             fp == IF dots = {} THEN <<>> ELSE SubSeq(body, The(dots) + 1, Len(body))
             ok == /\ Cardinality(dots) <= 1
                   /\ Len(fp) <= 1
                   /\ ip # <<>> \/ fp # <<>>
                   /\ \A i \in 1..Len(ip) : ip[i] \in Digits
                   /\ \A i \in 1..Len(fp) : fp[i] \in Digits
             mag == 10 * DigitsValue(ip) + DigitsValue(fp)
         IN  IF ok THEN Some(IF neg THEN 0 - mag ELSE mag) ELSE None

\* name.replace(BOM, "").strip().strip('"'); a header name is a sequence of
\* tokens: "BOM", " ", "Q" (a double quote) and the words of the name.
sanitize_header(name) ==
    LET nobom == SelectSeq(name, LAMBDA t : t # "BOM")
    IN  Strip(Strip(nobom, {" "}), {"Q"})

(***************************************************************************)
(* Python floats: IEEE 754 binary64, round to nearest, ties to even.       *)
(* A float is [neg, exp, man]: man is its 53 significant bits, the first   *)
(* one 1 and worth 2^exp; zero has man = <<>>.  The values met here are    *)
(* far from the subnormal and the overflow range.                          *)
(***************************************************************************)
Precision == 53

RECURSIVE Zeros(_)
Zeros(n) == IF n <= 0 THEN <<>> ELSE <<0>> \o Zeros(n - 1)

FZero == [neg |-> FALSE, exp |-> 0, man |-> <<>>]

RECURSIVE StripZeros(_)
StripZeros(bits) ==
    IF bits # <<>> /\ Head(bits) = 0 THEN StripZeros(Tail(bits)) ELSE bits

\* bits + 1, for bits of a fixed length; the carry out of the first bit is lost.
RECURSIVE Increment(_)
Increment(bits) ==
    IF bits = <<>> THEN <<>>
    ELSE IF bits[Len(bits)] = 0 THEN SubSeq(bits, 1, Len(bits) - 1) \o <<1>>
    ELSE Increment(SubSeq(bits, 1, Len(bits) - 1)) \o <<0>>

\* The float nearest to the magnitude bits * 2^(exp of the first bit), the
\* first bit being 1; sticky: the exact magnitude has 1s below the bits given.
FRound(neg, bits, exp, sticky) ==
    IF Len(bits) <= Precision
    THEN [neg |-> neg, exp |-> exp, man |-> bits \o Zeros(Precision - Len(bits))]
    ELSE LET keep == SubSeq(bits, 1, Precision)
             guard == bits[Precision + 1]
             below == sticky \/ \E i \in (Precision + 2)..Len(bits) : bits[i] = 1
             up == guard = 1 /\ (below \/ keep[Precision] = 1)
             carry == up /\ \A i \in 1..Precision : keep[i] = 1
         IN  IF ~up THEN [neg |-> neg, exp |-> exp, man |-> keep]
             ELSE IF carry
             THEN [neg |-> neg, exp |-> exp + 1, man |-> <<1>> \o Zeros(Precision - 1)]
             ELSE [neg |-> neg, exp |-> exp, man |-> Increment(keep)]

\* The first n bits of the binary expansion of r / b, 0 <= r < b, after the
\* point, and what is left of r.
RECURSIVE LongDivision(_, _, _, _)
LongDivision(r, b, n, acc) ==
    IF n = 0 THEN [bits |-> acc, rem |-> r]
    ELSE IF 2 * r >= b THEN LongDivision(2 * r - b, b, n - 1, Append(acc, 1))
    ELSE LongDivision(2 * r, b, n - 1, Append(acc, 0))

\* a, b, e scaled so that b <= a < 2b, the quotient unchanged but for 2^e.
RECURSIVE Normalize(_, _, _)
Normalize(a, b, e) ==
    IF a < b THEN Normalize(2 * a, b, e - 1)
    ELSE IF a >= 2 * b THEN Normalize(a, 2 * b, e + 1)
    ELSE [a |-> a, b |-> b, e |-> e]

\* a / b for ints a >= 0, b > 0: Python's true division is correctly rounded.
FDiv(a, b) ==
    IF a = 0 THEN FZero
    ELSE LET n == Normalize(a, b, 0)
             q == LongDivision(n.a - n.b, n.b, Precision + 1, <<1>>)
         IN  FRound(FALSE, q.bits, n.e, q.rem # 0)

\* Magnitudes as bit strings of one length: x < y.
RECURSIVE BitsLess(_, _)
BitsLess(x, y) ==
    IF x = <<>> THEN FALSE
    ELSE IF Head(x) # Head(y) THEN Head(x) < Head(y)
    ELSE BitsLess(Tail(x), Tail(y))

\* x + y for bit strings of one length, one bit longer: from bit i down.
RECURSIVE BitsAddFrom(_, _, _, _, _)
BitsAddFrom(x, y, i, carry, acc) ==
    IF i = 0 THEN <<carry>> \o acc
    ELSE IF x[i] + y[i] + carry >= 2
    THEN BitsAddFrom(x, y, i - 1, 1, <<x[i] + y[i] + carry - 2>> \o acc)
    ELSE BitsAddFrom(x, y, i - 1, 0, <<x[i] + y[i] + carry>> \o acc)

BitsAdd(x, y) == BitsAddFrom(x, y, Len(x), 0, <<>>)

\* x - y for bit strings of one length, x >= y: from bit i down.
RECURSIVE BitsSubFrom(_, _, _, _, _)
BitsSubFrom(x, y, i, borrow, acc) ==
    IF i = 0 THEN acc
    ELSE IF x[i] - y[i] - borrow < 0
    THEN BitsSubFrom(x, y, i - 1, 1, <<x[i] - y[i] - borrow + 2>> \o acc)
    ELSE BitsSubFrom(x, y, i - 1, 0, <<x[i] - y[i] - borrow>> \o acc)

BitsSub(x, y) == BitsSubFrom(x, y, Len(x), 0, <<>>)

FNeg(x) == IF x.man = <<>> THEN x ELSE [x EXCEPT !.neg = ~x.neg]

\* x + y
FAdd(x, y) ==
    IF x.man = <<>> THEN y
    ELSE IF y.man = <<>> THEN x
    ELSE LET low == IF x.exp < y.exp THEN x.exp ELSE y.exp
             high == IF x.exp < y.exp THEN y.exp ELSE x.exp
             \* both magnitudes in units of 2^(low - Precision + 1)
             mx == Zeros(high - x.exp) \o x.man \o Zeros(x.exp - low)
             my == Zeros(high - y.exp) \o y.man \o Zeros(y.exp - low)
             ymore == BitsLess(mx, my)
             raw == IF x.neg = y.neg THEN BitsAdd(mx, my)
                    ELSE IF ymore THEN BitsSub(my, mx)
                    ELSE BitsSub(mx, my)
             neg == IF x.neg = y.neg THEN x.neg
                    ELSE IF ymore THEN y.neg ELSE x.neg
             bits == StripZeros(raw)
             top == low - Precision + 1 + Len(raw) - 1
         IN  IF bits = <<>> THEN FZero
             ELSE FRound(neg, bits, top - (Len(raw) - Len(bits)), FALSE)

\* x - y
FSub(x, y) == FAdd(x, FNeg(y))

\* x < y
FLess(x, y) ==
    LET MagLess(u, v) ==
            IF u.man = <<>> THEN v.man # <<>>
            ELSE IF v.man = <<>> THEN FALSE
            ELSE IF u.exp # v.exp THEN u.exp < v.exp
            ELSE BitsLess(u.man, v.man)
    IN  IF x.man = <<>> /\ y.man = <<>> THEN FALSE
        ELSE IF x.man = <<>> THEN ~y.neg
        ELSE IF y.man = <<>> THEN x.neg
        ELSE IF x.neg # y.neg THEN x.neg
        ELSE IF x.neg THEN MagLess(y, x)
        ELSE MagLess(x, y)

(***************************************************************************)
(* Source files                                                            *)
(***************************************************************************)
W(word) == <<word>>

\* A full export: a byte-order mark on the first name, quotes round another.
HFull ==
    << <<"BOM", "pitcher">>, <<"Q", "pitch_type", "Q">>, W("player_name"),
       W("p_throws"), W("stand"), W("balls"), W("strikes"), W("plate_x"),
       W("plate_z"), W("sz_top"), W("sz_bot"), W("description"), W("events") >>

\* Only the required columns, the pitch type under its fallback name.
HAlias == << <<" ", "pitcher">>, W("pitch_name") >>

HNoPitcher == << W("pitch_type"), W("player_name") >>

HNoType == << W("pitcher"), W("player_name") >>

Headers == {HFull, HAlias, HNoPitcher, HNoType, <<>>}

\* readable = FALSE: open() or the decoding of the first block raises.
Files == [readable : BOOLEAN, header : Headers]

PitcherCells ==
    {None, Some(<<>>), Some(<<" ">>), Some(<<"x">>), Some(<<"7">>), Some(<<" ", "8">>)}

TypeCells == {Some(""), Some("FF")}

WhoCells ==
    { [player_name |-> None, p_throws |-> None],
      [player_name |-> Some("A"), p_throws |-> Some("L")] }

\* The other cells of a line: all filled in, or blank and unparseable ones.
FilledCells ==
    [stand |-> Some("R"), balls |-> Some(<<"1">>), strikes |-> Some(<<"2">>),
     plate_x |-> Some(<<"0", ".", "5">>), plate_z |-> Some(<<"2">>),
     sz_top |-> Some(<<"3", ".", "5">>), sz_bot |-> Some(<<"1", ".", "5">>),
     description |-> Some("swinging_strike"), events |-> Some("")]

PoorCells ==
    [stand |-> Some(""), balls |-> Some(<<"x">>), strikes |-> Some(<<>>),
     plate_x |-> Some(<<>>), plate_z |-> None,
     sz_top |-> Some(<<"x">>), sz_bot |-> Some(<<"-", "1">>),
     description |-> None, events |-> Some("double")]

\* The cells of one line, by column name as sanitized.
Cells(p, t, w, r) ==
    (W("pitcher") :> p) @@ (W("pitch_type") :> t) @@ (W("pitch_name") :> t)
    @@ (W("player_name") :> w.player_name) @@ (W("p_throws") :> w.p_throws)
    @@ (W("stand") :> r.stand) @@ (W("balls") :> r.balls)
    @@ (W("strikes") :> r.strikes) @@ (W("plate_x") :> r.plate_x)
    @@ (W("plate_z") :> r.plate_z) @@ (W("sz_top") :> r.sz_top)
    @@ (W("sz_bot") :> r.sz_bot) @@ (W("description") :> r.description)
    @@ (W("events") :> r.events)

\* The lines a file may hold; the lines of pitcher " 8" carry the poor cells.
Lines ==
    {Cells(p, t, w, IF p = Some(<<" ", "8">>) THEN PoorCells ELSE FilledCells) :
        p \in PitcherCells, t \in TypeCells, w \in WhoCells}

\* csv.DictReader: the row of a line is keyed by the header names as written.
DictRow(hdr, line) ==
    [c \in {hdr[i] : i \in 1..Len(hdr)} |-> line[sanitize_header(c)]]

\* header_map = {sanitize_header(fn): fn for fn in raw_headers}; a later name
\* replaces an earlier one that sanitizes to the same text.
header_map(raw_headers) ==
    LET idx(k) == {i \in 1..Len(raw_headers) : sanitize_header(raw_headers[i]) = k}
    IN  [k \in {sanitize_header(raw_headers[i]) : i \in 1..Len(raw_headers)} |->
            raw_headers[CHOOSE i \in idx(k) : \A j \in idx(k) : j <= i]]

col(hm, name, fallback) ==
    IF name \in DOMAIN hm THEN Some(hm[name])
    ELSE IF fallback # None /\ The(fallback) \in DOMAIN hm THEN Some(hm[The(fallback)])
    ELSE None

\* row.get(c): None for a column the header lacks.
Get(r, c) == IF c = None \/ The(c) \notin DOMAIN r THEN None ELSE r[The(c)]

\* The columns process_csv resolves once per file.
columns(raw_headers) ==
    LET hm == header_map(raw_headers)
    IN  [pitch_type |-> col(hm, W("pitch_type"), Some(W("pitch_name"))),
         pitcher |-> col(hm, W("pitcher"), None),
         player_name |-> col(hm, W("player_name"), None),
         p_throws |-> col(hm, W("p_throws"), None),
         stand |-> col(hm, W("stand"), None),
         balls |-> col(hm, W("balls"), None),
         strikes |-> col(hm, W("strikes"), None),
         plate_x |-> col(hm, W("plate_x"), None),
         plate_z |-> col(hm, W("plate_z"), None),
         sz_top |-> col(hm, W("sz_top"), None),
         sz_bot |-> col(hm, W("sz_bot"), None),
         description |-> col(hm, W("description"), None),
         events |-> col(hm, W("events"), None)]

NoColumns == columns(<<>>)

(***************************************************************************)
(* Pitcher registry                                                        *)
(***************************************************************************)
\* get_or_create_pitcher with the lookup lost: every call inserts.
create_pitcher(ps, mlb_id, name, throws_hand) ==
    [pitchers |-> Append(ps, [mlb_id |-> mlb_id, name |-> name,
                              throws_hand |-> throws_hand]),
     id |-> Len(ps) + 1]

\* SELECT id FROM pitchers WHERE mlb_id = ?; the row found, else INSERT and
\* cur.lastrowid.  The result: the table after the call and the id returned.
get_or_create_pitcher(ps, mlb_id, name, throws_hand) ==
    LET found == {i \in 1..Len(ps) : ps[i].mlb_id = mlb_id}
    IN  IF found # {}
        THEN [pitchers |-> ps, id |-> CHOOSE i \in found : \A j \in found : i <= j]
        ELSE [pitchers |-> Append(ps, [mlb_id |-> mlb_id, name |-> name,
                                       throws_hand |-> throws_hand]),
              id |-> Len(ps) + 1]

(***************************************************************************)
(* process_csv: one iteration of `for row in reader`                       *)
(***************************************************************************)
\* The tables after the iteration for row r of a file with columns cs, and the
\* get_or_create_pitcher call it made (None when it made none).
row_step(ps, es, cs, r) ==
    LET pitcher_raw == Get(r, cs.pitcher)
        pitcher_mlb_id == to_int(pitcher_raw)
        pitcher_name == OrElse(Get(r, cs.player_name), "Unknown Pitcher")
        throws_hand == OrElse(Get(r, cs.p_throws), "")
        got == get_or_create_pitcher(ps, The(pitcher_mlb_id), pitcher_name, throws_hand)
        stand == Get(r, cs.stand)
        batter_hand == IF stand = None \/ stand = Some("") THEN None ELSE stand
        balls == IF cs.balls # None THEN to_int(Get(r, cs.balls)) ELSE None
        strikes == IF cs.strikes # None THEN to_int(Get(r, cs.strikes)) ELSE None
        pitch_type == Get(r, cs.pitch_type)
        events == Get(r, cs.events)
        event == [pitcher_id |-> got.id,
                  batter_hand |-> batter_hand,
                  balls |-> balls,
                  strikes |-> strikes,
                  pitch_type |-> The(pitch_type),
                  plate_x |-> to_float(Get(r, cs.plate_x)),
                  plate_z |-> to_float(Get(r, cs.plate_z)),
                  sz_top |-> to_float(Get(r, cs.sz_top)),
                  sz_bot |-> to_float(Get(r, cs.sz_bot)),
                  description |-> OrElse(Get(r, cs.description), ""),
                  outcome |-> IF events = None \/ events = Some("") THEN None ELSE events]
        resolved == Some([mlb_id |-> The(pitcher_mlb_id), name |-> pitcher_name,
                          throws_hand |-> throws_hand, id |-> got.id])
    IN  IF pitcher_raw = None \/ pitcher_raw = Some(<<>>)
        THEN [pitchers |-> ps, pitches |-> es, call |-> None]
        ELSE IF pitcher_mlb_id = None
        THEN [pitchers |-> ps, pitches |-> es, call |-> None]
        ELSE IF pitch_type = None \/ pitch_type = Some("")
        THEN [pitchers |-> got.pitchers, pitches |-> es, call |-> resolved]
        ELSE [pitchers |-> got.pitchers, pitches |-> Append(es, event), call |-> resolved]

\* The three required-value checks, stated on the cells of the row.
IsIntegerText(s) ==
    LET t == Strip(s, {" "})
        body == IF t # <<>> /\ Head(t) \in {"-", "+"} THEN Tail(t) ELSE t
    IN  body # <<>> /\ \A i \in 1..Len(body) : body[i] \in Digits

PitcherIdOk(cs, r) ==
    LET c == Get(r, cs.pitcher) IN c # None /\ IsIntegerText(The(c))

PitchTypeOk(cs, r) ==
    LET c == Get(r, cs.pitch_type) IN c # None /\ c # Some("")

RowPasses(cs, r) == PitcherIdOk(cs, r) /\ PitchTypeOk(cs, r)

\* The external id a row hands to get_or_create_pitcher.
RowExternalId(cs, r) == The(to_int(Get(r, cs.pitcher)))

(***************************************************************************)
(* The ingestion run: main and process_csv                                 *)
(***************************************************************************)
NoResp == [op |-> "none"]

EmptyTables == [pitchers |-> <<>>, pitches |-> <<>>]

\* The state after init_db: the schema with no rows, no run started.
InitEtl ==
    /\ pitchers = <<>>
    /\ pitches = <<>>
    /\ disk = EmptyTables
    /\ pc = "idle"
    /\ files = 0
    /\ header = <<>>
    /\ cols = NoColumns
    /\ rejected = FALSE
    /\ call = None
    /\ nrows = 0
    /\ fileBase = 0
    /\ passed = 0
    /\ accepted = 0
    /\ first = <<>>

\* main up to the loop: the directory is missing or holds no file (return), or
\* the loop starts over the files found.
main_start ==
    /\ pc = "idle"
    /\ \E n \in 0..MaxFiles :
          /\ files' = n
          /\ pc' = IF n = 0 THEN "done" ELSE "file"
    /\ UNCHANGED <<pitchers, pitches, disk, header, cols, rejected, call, nrows, fileBase,
                   passed, accepted, first, resp, qlog>>

\* process_csv up to the loop over the rows: the file opened and its header read.
process_csv_open ==
    /\ pc = "file"
    /\ files > 0
    /\ \E f \in Files :
          IF ~f.readable
          THEN \* the exception leaves main before conn.commit(): the process ends,
               \* the transaction is never committed and disk stays as it was
               /\ pc' = "aborted"
               /\ UNCHANGED <<files, pitchers, pitches, header, cols, fileBase, passed>>
          ELSE IF f.header = <<>>
                  \/ columns(f.header).pitcher = None
                  \/ columns(f.header).pitch_type = None
          THEN \* no header, or a required column missing: return
               /\ files' = files - 1
               /\ UNCHANGED <<pc, pitchers, pitches, header, cols, fileBase, passed>>
          ELSE /\ pc' = "rows"
               /\ header' = f.header
               /\ cols' = columns(f.header)
               /\ fileBase' = Len(pitches)
               /\ passed' = 0
               /\ UNCHANGED <<files, pitchers, pitches>>
    /\ UNCHANGED <<disk, rejected, call, nrows, accepted, first, resp, qlog>>

\* One iteration of the loop over the rows.
process_csv_row ==
    /\ pc = "rows"
    /\ nrows < MaxRows
    /\ \E line \in Lines :
          LET r == DictRow(header, line)
              after == row_step(pitchers, pitches, cols, r)
              ext == RowExternalId(cols, r)
          IN  /\ rejected' = ~RowPasses(cols, r)
              /\ call' = after.call
              /\ pitchers' = after.pitchers
              /\ pitches' = after.pitches
              /\ passed' = IF RowPasses(cols, r) THEN passed + 1 ELSE passed
              /\ accepted' = IF RowPasses(cols, r) THEN accepted + 1 ELSE accepted
              /\ first' = IF PitcherIdOk(cols, r) /\ ext \notin DOMAIN first
                          THEN first @@ (ext :>
                                 [name |-> OrElse(Get(r, cols.player_name), "Unknown Pitcher"),
                                  throws_hand |-> OrElse(Get(r, cols.p_throws), "")])
                          ELSE first
    /\ nrows' = nrows + 1
    /\ UNCHANGED <<disk, pc, files, header, cols, fileBase, resp, qlog>>

\* The reader is exhausted: process_csv returns.
process_csv_end ==
    /\ pc = "rows"
    /\ pc' = "file"
    /\ files' = files - 1
    /\ UNCHANGED <<pitchers, pitches, disk, header, cols, rejected, call, nrows, fileBase,
                   passed, accepted, first, resp, qlog>>

\* The reader raises on a later block of the file (bytes that are not UTF-8,
\* a line the csv module refuses): as for a file that cannot be opened.
process_csv_raise ==
    /\ pc = "rows"
    /\ pc' = "aborted"
    /\ UNCHANGED <<pitchers, pitches, disk, files, header, cols, rejected, call, nrows, fileBase, passed, accepted,
                   first, resp, qlog>>

\* main after the loop: conn.commit().
main_commit ==
    /\ pc = "file"
    /\ files = 0
    /\ disk' = [pitchers |-> pitchers, pitches |-> pitches]
    /\ pc' = "done"
    /\ UNCHANGED <<pitchers, pitches, files, header, cols, rejected, call, nrows, fileBase,
                   passed, accepted, first, resp, qlog>>

Init == InitEtl /\ resp = NoResp /\ qlog = <<>>

Next ==
    \/ main_start
    \/ process_csv_open
    \/ process_csv_row
    \/ process_csv_end
    \/ process_csv_raise
    \/ main_commit

Spec == Init /\ [][Next]_vars

(***************************************************************************)
(* The store queries of the API                                            *)
(***************************************************************************)
MinSample == 5

\* description LIKE 'swinging_strike%', on the descriptions met here.
like_swinging_strike(description) ==
    description \in {"swinging_strike", "swinging_strike_blocked"}

\* outcome IN ('home_run', 'double', 'triple'); NULL is in no list.
is_hard_hit(outcome) ==
    outcome # None /\ The(outcome) \in {"home_run", "double", "triple"}

\* The rows of es with the pitch type t, counted as the SELECT list counts them.
Aggregate(es, t) ==
    [pitch_type |-> t,
     total |-> Len(SelectSeq(es, LAMBDA e : e.pitch_type = t)),
     whiffs |-> Len(SelectSeq(es, LAMBDA e : e.pitch_type = t /\ like_swinging_strike(e.description))),
     hard_hits |-> Len(SelectSeq(es, LAMBDA e : e.pitch_type = t /\ is_hard_hit(e.outcome)))]

\* HAVING total >= 5 with the floor lost.
having_any(total) == total >= 1

\* HAVING total >= 5
having(total) == total >= MinSample

\* WHERE pitcher_id = ? AND balls = ? AND strikes = ? [AND batter_hand = ?]
\* AND pitch_type IS NOT NULL GROUP BY pitch_type HAVING total >= 5: the set of
\* rows.  hand = None: the query without the batter_hand condition.  A NULL
\* column equals nothing.
situation_query(es, pitcher_id, balls, strikes, hand) ==
    LET m == SelectSeq(es, LAMBDA e :
                 /\ e.pitcher_id = pitcher_id
                 /\ e.balls = Some(balls)
                 /\ e.strikes = Some(strikes)
                 /\ hand = None \/ e.batter_hand = hand)
        groups == {Aggregate(m, t) : t \in {m[i].pitch_type : i \in 1..Len(m)}}
    IN  {g \in groups : having(g.total)}

\* The orders in which a query without ORDER BY may return a set of rows.
Orderings(S) ==
    {f \in [1..Cardinality(S) -> S] : \A i, j \in 1..Cardinality(S) : f[i] = f[j] => i = j}

(***************************************************************************)
(* recommend_pitch                                                         *)
(***************************************************************************)
F_0_5 == FDiv(1, 2)

F_0_55 == FDiv(55, 100)

F_0_95 == FDiv(95, 100)

F_minus_999 == FNeg(FDiv(999, 1))

\* whiffs / total if total else 0.0
rate(count, total) == IF total # 0 THEN FDiv(count, total) ELSE FZero

\* The loop over the rows from row i on; best = [score, pitch].
RECURSIVE best_from(_, _, _)
best_from(rows, i, best) ==
    IF i > Len(rows) THEN best
    ELSE LET whiff_pct == rate(rows[i].whiffs, rows[i].total)
             hard_hit_pct == rate(rows[i].hard_hits, rows[i].total)
             score == FSub(whiff_pct, hard_hit_pct)
         IN  IF FLess(best.score, score)
             THEN best_from(rows, i + 1,
                            [score |-> score,
                             pitch |-> Some([pitch_type |-> rows[i].pitch_type,
                                             total |-> rows[i].total,
                                             whiff_pct |-> whiff_pct,
                                             hard_hit_pct |-> hard_hit_pct])])
             ELSE best_from(rows, i + 1, best)

best_of(rows) == best_from(rows, 1, [score |-> F_minus_999, pitch |-> None])

\* best_score + 0.5 with the clamp lost.
unclamped_confidence(best_score) == FAdd(best_score, F_0_5)

\* min(0.95, max(0.55, best_score + 0.5)); max and min keep their first
\* argument unless the second is greater, respectively smaller.
confidence(best_score) ==
    LET x == FAdd(best_score, F_0_5)
        m == IF FLess(F_0_55, x) THEN x ELSE F_0_55
    IN  IF FLess(m, F_0_95) THEN m ELSE F_0_95

\* The fallback taken whatever the first query returned.
always_fall_back(rows) == TRUE

\* if not rows
no_rows(rows) == rows = <<>>

DefaultRecommendation ==
    [recommended_pitch_type |-> "FF",
     confidence |-> F_0_5,
     rationale |-> <<[text |-> "insufficient data"]>>,
     sample_size |-> 0,
     whiff_pct |-> FZero,
     in_play_hard_hit_pct |-> FZero]

\* The body returned for a non-empty candidate list.  The rationale is one
\* sentence, kept as the values it cites.
Recommendation(rows) ==
    LET best == best_of(rows)
        p == The(best.pitch)
    IN  [recommended_pitch_type |-> p.pitch_type,
         confidence |-> confidence(best.score),
         rationale |-> <<[text |-> "rates", pitch_type |-> p.pitch_type,
                          whiff_pct |-> p.whiff_pct, hard_hit_pct |-> p.hard_hit_pct]>>,
         sample_size |-> p.total,
         whiff_pct |-> p.whiff_pct,
         in_play_hard_hit_pct |-> p.hard_hit_pct]

Query(stage, pitcher_id, balls, strikes, hand) ==
    [stage |-> stage, pitcher_id |-> pitcher_id, balls |-> balls,
     strikes |-> strikes, batter_hand |-> hand]

\* RecommendationRequest: pitcher_id, balls and strikes any int, batter_hand
\* any string.
RecommendRequests ==
    [pitcher_id : {1, 2},
     count : {<<1, 2>>, <<0, 0>>, <<4, -1>>},
     batter_hand : {"L", "R", "X"}]

recommend_pitch ==
    /\ \E req \in RecommendRequests :
          LET balls == req.count[1]
              strikes == req.count[2]
              q1 == Query("exact", req.pitcher_id, balls, strikes, Some(req.batter_hand))
              q2 == Query("pooled", req.pitcher_id, balls, strikes, None)
          IN  \E exact \in Orderings(situation_query(disk.pitches, req.pitcher_id,
                                                     balls, strikes, Some(req.batter_hand))) :
                 IF ~no_rows(exact)
                 THEN /\ qlog' = <<q1>>
                      /\ resp' = [op |-> "recommend", status |-> 200, req |-> req,
                                  stage |-> "exact", rows |-> exact,
                                  body |-> Recommendation(exact)]
                 ELSE \E pooled \in Orderings(situation_query(disk.pitches, req.pitcher_id,
                                                              balls, strikes, None)) :
                         /\ qlog' = <<q1, q2>>
                         /\ resp' = IF no_rows(pooled)
                                    THEN [op |-> "recommend", status |-> 200, req |-> req,
                                          stage |-> "default", rows |-> pooled,
                                          body |-> DefaultRecommendation]
                                    ELSE [op |-> "recommend", status |-> 200, req |-> req,
                                          stage |-> "pooled", rows |-> pooled,
                                          body |-> Recommendation(pooled)]
    /\ UNCHANGED etl

(***************************************************************************)
(* pitcher_usage                                                           *)
(***************************************************************************)
\* The place of a pitch type in the order of its bytes.
TypeRank(t) ==
    CASE t = "CU" -> 1 [] t = "FF" -> 2 [] t = "SL" -> 3 [] OTHER -> 0

\* ORDER BY balls, strikes, pitch_type
UsageBefore(a, b) ==
    \/ a.balls < b.balls
    \/ a.balls = b.balls /\ a.strikes < b.strikes
    \/ a.balls = b.balls /\ a.strikes = b.strikes
       /\ TypeRank(a.pitch_type) < TypeRank(b.pitch_type)

RECURSIVE Sorted(_)
Sorted(S) ==
    IF S = {} THEN <<>>
    ELSE LET least == CHOOSE x \in S : \A y \in S \ {x} : UsageBefore(x, y)
         IN  <<least>> \o Sorted(S \ {least})

\* The hand condition added for any hand handed in.
any_hand_clause(batter_hand) == batter_hand

\* if batter_hand in ("L", "R"): the condition is added; None: no condition.
hand_clause(batter_hand) ==
    IF batter_hand \in {Some("L"), Some("R")} THEN batter_hand ELSE None

\* WHERE pitcher_id = ? AND balls IS NOT NULL AND strikes IS NOT NULL AND
\* pitch_type IS NOT NULL [AND batter_hand = ?] GROUP BY balls, strikes,
\* pitch_type ORDER BY balls, strikes, pitch_type
usage_query(es, pitcher_id, hand) ==
    LET m == SelectSeq(es, LAMBDA e :
                 /\ e.pitcher_id = pitcher_id
                 /\ e.balls # None
                 /\ e.strikes # None
                 /\ hand = None \/ e.batter_hand = hand)
        In(e, k) == e.balls = Some(k[1]) /\ e.strikes = Some(k[2]) /\ e.pitch_type = k[3]
        keys == {<<The(m[i].balls), The(m[i].strikes), m[i].pitch_type>> : i \in 1..Len(m)}
    IN  Sorted({[balls |-> k[1], strikes |-> k[2], pitch_type |-> k[3],
                 total |-> Len(SelectSeq(m, LAMBDA e : In(e, k))),
                 whiffs |-> Len(SelectSeq(m, LAMBDA e : In(e, k) /\ like_swinging_strike(e.description))),
                 hard_hits |-> Len(SelectSeq(m, LAMBDA e : In(e, k) /\ is_hard_hit(e.outcome)))] :
                k \in keys})

DigitChar(d) ==
    CASE d = 0 -> "0" [] d = 1 -> "1" [] d = 2 -> "2" [] d = 3 -> "3" [] d = 4 -> "4"
      [] d = 5 -> "5" [] d = 6 -> "6" [] d = 7 -> "7" [] d = 8 -> "8" [] d = 9 -> "9"

RECURSIVE NatText(_)
NatText(n) == IF n < 10 THEN <<DigitChar(n)>> ELSE NatText(n \div 10) \o <<DigitChar(n % 10)>>

\* str(n)
IntText(n) == IF n < 0 THEN <<"-">> \o NatText(0 - n) ELSE NatText(n)

\* f"{balls}-{strikes}"
count_key(balls, strikes) == IntText(balls) \o <<"-">> \o IntText(strikes)

\* The loop over the rows: the dict from count key to the list of summaries.
usage_by_count(rows) ==
    LET key(i) == count_key(rows[i].balls, rows[i].strikes)
        summary(r) == [pitch_type |-> r.pitch_type, total |-> r.total,
                       whiff_pct |-> rate(r.whiffs, r.total),
                       hard_hit_pct |-> rate(r.hard_hits, r.total)]
        under(k) == SelectSeq(rows, LAMBDA r : count_key(r.balls, r.strikes) = k)
    IN  [k \in {key(i) : i \in 1..Len(rows)} |->
            [j \in 1..Len(under(k)) |-> summary(under(k)[j])]]

\* pitcher_id any int, batter_hand any string or absent.
UsageRequests ==
    [pitcher_id : {1, 2}, batter_hand : {None, Some("L"), Some("R"), Some("X")}]

pitcher_usage ==
    /\ \E req \in UsageRequests :
          LET hand == hand_clause(req.batter_hand)
              rows == usage_query(disk.pitches, req.pitcher_id, hand)
          IN  /\ qlog' = <<[stage |-> "usage", pitcher_id |-> req.pitcher_id,
                            batter_hand |-> hand]>>
              /\ resp' = [op |-> "usage", status |-> 200, req |-> req,
                          body |-> [pitcher_id |-> req.pitcher_id,
                                    usage_by_count |-> usage_by_count(rows)]]
    /\ UNCHANGED etl

(***************************************************************************)
(* pitcher_pitches                                                         *)
(***************************************************************************)
LimitMax == 2000

\* Query(..., ge0=0, le=3), Query(..., ge0=0, le=2), Query(500, ge=1, le=2000):
\* ge0 is no constraint of Query, so balls and strikes have no lower bound.
pitches_params_ok(balls, strikes, limit) ==
    /\ balls <= 3
    /\ strikes <= 2
    /\ limit >= 1
    /\ limit <= LimitMax

\* The sequences LIMIT n may return of the rows found: n of them (all when
\* there are fewer), in the order of the table.
Limited(found, n) ==
    LET k == IF n < Len(found) THEN n ELSE Len(found)
        picks == {P \in SUBSET (1..Len(found)) : Cardinality(P) = k}
        nth(P, j) == CHOOSE i \in P : Cardinality({h \in P : h < i}) = j - 1
    IN  {[j \in 1..k |-> found[nth(P, j)]] : P \in picks}

\* WHERE pitcher_id = ? AND balls = ? AND strikes = ? AND plate_x IS NOT NULL
\* AND plate_z IS NOT NULL [AND batter_hand = ?]
located_query(es, pitcher_id, balls, strikes, hand) ==
    SelectSeq(es, LAMBDA e :
        /\ e.pitcher_id = pitcher_id
        /\ e.balls = Some(balls)
        /\ e.strikes = Some(strikes)
        /\ e.plate_x # None
        /\ e.plate_z # None
        /\ hand = None \/ e.batter_hand = hand)

RECURSIVE Sum(_)
Sum(vals) == IF vals = <<>> THEN 0 ELSE Head(vals) + Sum(Tail(vals))

\* The values of a bound over the rows, None counted as 0.
all_or_zero(bounds) ==
    [i \in 1..Len(bounds) |-> IF bounds[i] = None THEN 0 ELSE The(bounds[i])]

\* if sz_top is not None: sz_tops.append(sz_top)
not_none(bounds) ==
    LET kept == SelectSeq(bounds, LAMBDA b : b # None)
    IN  [i \in 1..Len(kept) |-> The(kept[i])]

\* sum(sz_tops) / len(sz_tops) if sz_tops else None: the quotient kept as the
\* sum and the number of values (the rounding of the sum is left out).
average(vals) ==
    IF vals = <<>> THEN None ELSE Some([sum |-> Sum(vals), n |-> Len(vals)])

location_summary(req, rows) ==
    [pitcher_id |-> req.pitcher_id,
     balls |-> req.count[1],
     strikes |-> req.count[2],
     batter_hand |-> req.batter_hand,
     avg_sz_top |-> average(not_none([i \in 1..Len(rows) |-> rows[i].sz_top])),
     avg_sz_bot |-> average(not_none([i \in 1..Len(rows) |-> rows[i].sz_bot])),
     pitches |-> [i \in 1..Len(rows) |->
                    [plate_x |-> The(rows[i].plate_x),
                     plate_z |-> The(rows[i].plate_z),
                     pitch_type |-> rows[i].pitch_type,
                     description |-> rows[i].description,
                     outcome |-> rows[i].outcome]]]

PitchesRequests ==
    [pitcher_id : {1},
     count : {<<1, 2>>, <<0, 0>>, <<4, 2>>, <<-1, 2>>, <<1, 3>>, <<1, -1>>},
     batter_hand : {None, Some("R"), Some("X")},
     limit : {500}]
    \cup [pitcher_id : {2}, count : {<<1, 2>>}, batter_hand : {None}, limit : {500}]
    \cup [pitcher_id : {1}, count : {<<1, 2>>}, batter_hand : {None, Some("L")},
          limit : {0, 1, 2, LimitMax, LimitMax + 1}]

pitcher_pitches ==
    /\ \E req \in PitchesRequests :
          LET balls == req.count[1]
              strikes == req.count[2]
              hand == hand_clause(req.batter_hand)
          IN  IF ~pitches_params_ok(balls, strikes, req.limit)
              THEN /\ qlog' = <<>>
                   /\ resp' = [op |-> "pitches", status |-> 422, req |-> req]
              ELSE \E rows \in Limited(located_query(disk.pitches, req.pitcher_id,
                                                     balls, strikes, hand), req.limit) :
                      /\ qlog' = <<Query("pitches", req.pitcher_id, balls, strikes, hand)>>
                      /\ resp' = [op |-> "pitches", status |-> 200, req |-> req,
                                  rows |-> rows, body |-> location_summary(req, rows)]
    /\ UNCHANGED etl

(***************************************************************************)
(* Stores the API is run against: tables an ingestion run can have         *)
(* committed                                                               *)
(***************************************************************************)
MaxTotal == 5

MaxWhiffs == MaxTotal - 2

MaxHard == 1

MaxStored == 3

ApiPitchers ==
    << [mlb_id |-> 7, name |-> "A", throws_hand |-> "L"],
       [mlb_id |-> 8, name |-> "Unknown Pitcher", throws_hand |-> ""] >>

Event(pitcher_id, hand, balls, strikes, pitch_type, description, outcome, px, pz, top, bot) ==
    [pitcher_id |-> pitcher_id, batter_hand |-> hand, balls |-> balls,
     strikes |-> strikes, pitch_type |-> pitch_type, plate_x |-> px, plate_z |-> pz,
     sz_top |-> top, sz_bot |-> bot, description |-> description, outcome |-> outcome]

\* n pitches of one type in one situation: w swinging strikes, then h hits for
\* extra bases, then called strikes and singles.
Cell(pitcher_id, hand, count, pitch_type, n, w, h) ==
    [i \in 1..n |->
        Event(pitcher_id, hand, Some(count[1]), Some(count[2]), pitch_type,
              IF i <= w THEN (IF i % 2 = 1 THEN "swinging_strike" ELSE "swinging_strike_blocked")
              ELSE IF i <= w + h THEN "hit_into_play"
              ELSE IF i % 2 = 1 THEN "called_strike" ELSE "hit_into_play",
              IF i > w /\ i <= w + h
              THEN (IF i % 3 = 0 THEN Some("triple")
                    ELSE IF i % 3 = 1 THEN Some("double") ELSE Some("home_run"))
              ELSE IF i > w + h /\ i % 2 = 0 THEN Some("single") ELSE None,
              Some(5), Some(20), Some(35), Some(15))]

Shapes ==
    {sh \in [n : {0} \cup ((MinSample - 1)..MaxTotal), w : 0..MaxWhiffs, h : 0..MaxHard] :
        sh.w + sh.h <= sh.n}

\* Two pitch types against right-handed batters at 1-2; the second is absent
\* or thrown exactly MinSample times.
ScoringStores ==
    {Cell(1, Some("R"), <<1, 2>>, "FF", a.n, a.w, a.h)
        \o Cell(1, Some("R"), <<1, 2>>, "SL", b.n, b.w, b.h) :
            a \in Shapes, b \in {sh \in Shapes : sh.n \in {0, MinSample}}}

\* Pitches of the other pitcher and of another count.
Noise ==
    Cell(2, Some("R"), <<1, 2>>, "SL", MinSample, 1, 0)
    \o Cell(1, Some("R"), <<0, 0>>, "SL", MinSample, 0, 1)

\* One pitch type at 1-2 split over left, right and unknown batter hand.
FallbackStores ==
    {Cell(1, Some("L"), <<1, 2>>, "CU", nl, IF nl > 0 THEN 1 ELSE 0, 0)
        \o Cell(1, Some("R"), <<1, 2>>, "CU", nr, 0, 0)
        \o Cell(1, None, <<1, 2>>, "CU", nn, 0, 0)
        \o Noise : nl \in 0..MaxTotal, nr \in 0..MaxTotal, nn \in 0..1}

\* SL 8 thrown / 5 whiffs / 1 hard hit and FF 6 / 1 / 2 against right-handers.
ExampleStore ==
    Cell(1, Some("R"), <<1, 2>>, "SL", 8, 5, 1) \o Cell(1, Some("R"), <<1, 2>>, "FF", 6, 1, 2)

\* CU 3 + 3 over the two hands, 3 whiffs and no hard hit in all.
FallbackExampleStore ==
    Cell(1, Some("L"), <<1, 2>>, "CU", 3, 2, 0) \o Cell(1, Some("R"), <<1, 2>>, "CU", 3, 1, 0)

RecommendStores == ScoringStores \cup FallbackStores \cup {ExampleStore, FallbackExampleStore}

Plain(pitcher_id, hand, balls, strikes, pitch_type) ==
    Event(pitcher_id, hand, balls, strikes, pitch_type, "called_strike", None,
          Some(5), Some(20), Some(35), Some(15))

UsageEvents ==
    { Plain(1, Some("L"), Some(0), Some(0), "FF"),
      Plain(1, Some("R"), Some(0), Some(0), "FF"),
      Plain(1, Some("R"), Some(0), Some(0), "CU"),
      Plain(1, Some("L"), Some(1), Some(2), "SL"),
      Plain(1, None, Some(3), Some(1), "FF"),
      Plain(1, Some("R"), None, Some(1), "FF"),
      Plain(1, Some("R"), Some(9), None, "FF"),
      Plain(2, Some("R"), Some(2), Some(2), "FF") }

Located(hand, count, px, pz, top, bot) ==
    Event(1, hand, Some(count[1]), Some(count[2]), "FF", "ball", None, px, pz, top, bot)

PitchesEvents ==
    { Located(Some("R"), <<1, 2>>, Some(5), Some(20), Some(35), Some(15)),
      Located(Some("L"), <<1, 2>>, Some(0), Some(0), Some(0), None),
      Located(None, <<1, 2>>, Some(-3), Some(28), None, Some(16)),
      Located(Some("R"), <<1, 2>>, None, Some(20), Some(34), Some(14)),
      Located(Some("L"), <<1, 2>>, Some(5), None, Some(36), Some(17)),
      Located(Some("R"), <<-1, 2>>, Some(5), Some(20), Some(35), Some(15)) }

SeqsUpTo(S, n) == UNION {[1..k -> S] : k \in 0..n}

UsageStores == SeqsUpTo(UsageEvents, MaxStored) \cup {ExampleStore}

PitchesStores == SeqsUpTo(PitchesEvents, MaxStored)

\* The state in which the API serves: an ingestion run has committed `stored`.
Serving(stored) ==
    /\ disk = [pitchers |-> ApiPitchers, pitches |-> stored]
    /\ pitchers = ApiPitchers
    /\ pitches = stored
    /\ pc = "done"
    /\ files = 0
    /\ header = <<>>
    /\ cols = NoColumns
    /\ rejected = FALSE
    /\ call = None
    /\ nrows = 0
    /\ fileBase = 0
    /\ passed = 0
    /\ accepted = Len(stored)
    /\ first = <<>>
    /\ resp = NoResp
    /\ qlog = <<>>

InitRecommend == \E stored \in RecommendStores : Serving(stored)

SpecRecommend == InitRecommend /\ [][recommend_pitch]_vars

InitUsage == \E stored \in UsageStores : Serving(stored)

SpecUsage == InitUsage /\ [][pitcher_usage]_vars

InitPitches == \E stored \in PitchesStores : Serving(stored)

SpecPitches == InitPitches /\ [][pitcher_pitches]_vars

InitApi ==
    \E stored \in SeqsUpTo(PitchesEvents, 1) \cup {ExampleStore, FallbackExampleStore} :
        Serving(stored)

NextApi == recommend_pitch \/ pitcher_usage \/ pitcher_pitches

SpecApi == InitApi /\ [][NextApi]_vars

(***************************************************************************)
(* Ingestion: properties                                                   *)
(***************************************************************************)
Records(id) == {i \in 1..Len(pitchers) : pitchers[i].mlb_id = id}

\* C3: the registry holds exactly one pitcher record for every external id
\* ever passed to get_or_create_pitcher and none for any other id; the record
\* carries the name and hand of the first call for that id, whatever later
\* calls passed (so no record was updated or deleted); and every call returns
\* the row id of that one record.
C3_OnePitcherPerExternalId ==
    /\ \A id \in DOMAIN first :
          /\ Cardinality(Records(id)) = 1
          /\ \A i \in Records(id) :
                /\ pitchers[i].name = first[id].name
                /\ pitchers[i].throws_hand = first[id].throws_hand
    /\ \A i \in 1..Len(pitchers) : pitchers[i].mlb_id \in DOMAIN first
    /\ call # None => Records(The(call).mlb_id) = {The(call).id}

\* A call for an id already registered under another name and hand.
C3_Witness ==
    /\ call # None
    /\ Len(pitchers) = 2
    /\ first[The(call).mlb_id].name # The(call).name
    /\ first[The(call).mlb_id].throws_hand # The(call).throws_hand

\* C4: the events a source has added are as many as its rows that passed the
\* three checks (pitcher id present, pitcher id an integer, pitch type not
\* empty), so a failing row created none; every stored event has a non-empty
\* pitch type and the id of a pitcher in the registry.
C4_OnlyPassingRowsMaterialize ==
    /\ Len(pitches) - fileBase = passed
    /\ Len(pitches) = accepted
    /\ \A i \in 1..Len(pitches) :
          /\ pitches[i].pitch_type # ""
          /\ pitches[i].pitcher_id \in 1..Len(pitchers)

\* A source with a stored event and a later row that failed a check.
C4_Witness ==
    /\ pc = "rows"
    /\ passed >= 1
    /\ fileBase >= 1
    /\ rejected

\* C5: a row that fails a required-value check leaves both tables as they
\* were before it.
C5_RejectedRowWritesNothing ==
    [][(nrows' = nrows + 1 /\ rejected') =>
          (pitchers' = pitchers /\ pitches' = pitches)]_vars

\* C8: no source file ends the run; a run that has ended has committed the
\* events of every accepted row of its files.
C8_BadFileSkippedRunCommits ==
    /\ pc # "aborted"
    /\ pc = "done" => Len(disk.pitches) = accepted

(***************************************************************************)
(* recommend: properties                                                   *)
(***************************************************************************)
\* How often the pitcher of req threw pitch type t at the count of req to a
\* batter whose hand is in hands, as stored.
Thrown(req, t, hands) ==
    Cardinality({i \in 1..Len(disk.pitches) :
        /\ disk.pitches[i].pitcher_id = req.pitcher_id
        /\ disk.pitches[i].balls = Some(req.count[1])
        /\ disk.pitches[i].strikes = Some(req.count[2])
        /\ disk.pitches[i].pitch_type = t
        /\ disk.pitches[i].batter_hand \in hands})

StoredTypes == {disk.pitches[i].pitch_type : i \in 1..Len(disk.pitches)}

StoredHands == {disk.pitches[i].batter_hand : i \in 1..Len(disk.pitches)}

\* The pitch types with total >= 5 against the hand of the request.
ExactHandTypes(req) == {t \in StoredTypes : Thrown(req, t, {Some(req.batter_hand)}) >= 5}

\* The pitch types with total >= 5 against all hands.
PooledHandTypes(req) == {t \in StoredTypes : Thrown(req, t, StoredHands) >= 5}

StageRank(stage) == CASE stage = "exact" -> 1 [] stage = "pooled" -> 2 [] OTHER -> 3

\* C1: a recommend request issues the exact-hand query first, with the
\* request's pitcher, count and hand; it issues the pooled-hand query (no hand
\* filter) if and only if no pitch type has total >= 5 against the exact hand;
\* the queries it issued are in the order exact, pooled, each once; the default
\* is returned only after both queries, and a pooled answer only after the
\* pooled query.
C1_FallbackIffExactEmpty ==
    resp.op = "recommend" =>
        /\ Len(qlog) \in {1, 2}
        /\ qlog[1] = Query("exact", resp.req.pitcher_id, resp.req.count[1],
                           resp.req.count[2], Some(resp.req.batter_hand))
        /\ (\E i \in 1..Len(qlog) : qlog[i].stage = "pooled")
              <=> (ExactHandTypes(resp.req) = {})
        /\ \A i, j \in 1..Len(qlog) :
              i < j => StageRank(qlog[i].stage) < StageRank(qlog[j].stage)
        /\ Len(qlog) = 2 =>
              qlog[2] = Query("pooled", resp.req.pitcher_id, resp.req.count[1],
                              resp.req.count[2], None)
        /\ resp.stage = "exact" <=> Len(qlog) = 1
        /\ resp.stage = "default" <=>
              (ExactHandTypes(resp.req) = {} /\ PooledHandTypes(resp.req) = {})

\* A request whose exact hand has seen the pitch type, but fewer than 5 times,
\* answered from the pooled query.
C1_Witness ==
    /\ resp.op = "recommend"
    /\ resp.stage = "pooled"
    /\ \E t \in StoredTypes : Thrown(resp.req, t, {Some(resp.req.batter_hand)}) \in 1..4
    /\ Len(qlog) = 2

\* C2: when the exact-hand or the pooled-hand query yields a pitch type with
\* total >= 5, the rationale is not empty and 0.55 <= confidence <= 0.95; when
\* neither does, the answer is pitch type "FF", confidence 0.5, sample size 0
\* and both rates 0.
C2_ConfidenceBounds ==
    resp.op = "recommend" =>
        IF ExactHandTypes(resp.req) # {} \/ PooledHandTypes(resp.req) # {}
        THEN /\ resp.body.rationale # <<>>
             /\ ~FLess(resp.body.confidence, F_0_55)
             /\ ~FLess(F_0_95, resp.body.confidence)
        ELSE /\ resp.body.recommended_pitch_type = "FF"
             /\ resp.body.confidence = F_0_5
             /\ resp.body.sample_size = 0
             /\ resp.body.whiff_pct = FZero
             /\ resp.body.in_play_hard_hit_pct = FZero

\* An answer from data whose best score is negative: the lower clamp acted.
C2_Witness ==
    /\ resp.op = "recommend"
    /\ resp.stage \in {"exact", "pooled"}
    /\ FLess(resp.body.whiff_pct, resp.body.in_play_hard_hit_pct)
    /\ resp.body.confidence = F_0_55

\* whiffs/total - hard_hits/total of a is greater than that of b.
ScoreGreater(a, b) ==
    (a.whiffs - a.hard_hits) * b.total > (b.whiffs - b.hard_hits) * a.total

\* C6: with a non-empty candidate list, the recommended pitch type is that of
\* the first candidate, in the order the query returned them, whose score
\* whiffs/total - hard_hits/total no candidate exceeds; sample size, whiff rate
\* and hard-hit rate are that candidate's.
C6_StrictlyGreatestScoreWins ==
    (resp.op = "recommend" /\ resp.stage \in {"exact", "pooled"}) =>
        LET rows == resp.rows
            winner == CHOOSE i \in 1..Len(rows) :
                         /\ \A j \in 1..Len(rows) : ~ScoreGreater(rows[j], rows[i])
                         /\ \A j \in 1..(i - 1) : ScoreGreater(rows[i], rows[j])
        IN  /\ resp.body.recommended_pitch_type = rows[winner].pitch_type
            /\ resp.body.sample_size = rows[winner].total
            /\ resp.body.whiff_pct = rate(rows[winner].whiffs, rows[winner].total)
            /\ resp.body.in_play_hard_hit_pct
                  = rate(rows[winner].hard_hits, rows[winner].total)

\* The example of the specification: SL 8/5/1 against FF 6/1/2 gives "SL" with
\* sample size 8 and confidence 0.95.
C6_Example ==
    (resp.op = "recommend" /\ disk.pitches = ExampleStore
        /\ resp.req = [pitcher_id |-> 1, count |-> <<1, 2>>, batter_hand |-> "R"]) =>
            /\ resp.body.recommended_pitch_type = "SL"
            /\ resp.body.sample_size = 8
            /\ resp.body.confidence = F_0_95

(***************************************************************************)
(* usage: properties                                                       *)
(***************************************************************************)
\* The stored events of the pitcher of req that have a count and a batter hand
\* in hands.
CountedEvents(req, hands) ==
    {i \in 1..Len(disk.pitches) :
        /\ disk.pitches[i].pitcher_id = req.pitcher_id
        /\ disk.pitches[i].balls # None
        /\ disk.pitches[i].strikes # None
        /\ disk.pitches[i].batter_hand \in hands}

Label(i) == count_key(The(disk.pitches[i].balls), The(disk.pitches[i].strikes))

\* The breakdown has exactly the labels of the events in among as keys, and
\* under each key one summary per pitch type thrown at that count, with the
\* number of those events, in ascending pitch-type order.
BreakdownOf(among) ==
    LET usage == resp.body.usage_by_count
    IN  /\ DOMAIN usage = {Label(i) : i \in among}
        /\ \A k \in DOMAIN usage :
              /\ {usage[k][j].pitch_type : j \in 1..Len(usage[k])}
                    = {disk.pitches[i].pitch_type : i \in {h \in among : Label(h) = k}}
              /\ \A j \in 1..Len(usage[k]) :
                    usage[k][j].total
                       = Cardinality({i \in among :
                            /\ Label(i) = k
                            /\ disk.pitches[i].pitch_type = usage[k][j].pitch_type})
              /\ \A j \in 1..(Len(usage[k]) - 1) :
                    TypeRank(usage[k][j].pitch_type) < TypeRank(usage[k][j + 1].pitch_type)

\* C7 as stated: the keys of the usage breakdown are the labels of the counts
\* among the pitcher's events that match the supplied hand (all the pitcher's
\* events when none is supplied), with no floor, each list ascending by pitch
\* type.
C7_KeysMatchSuppliedHand ==
    resp.op = "usage" =>
        BreakdownOf(CountedEvents(resp.req,
            IF resp.req.batter_hand = None THEN StoredHands ELSE {resp.req.batter_hand}))

\* C7 amended: the hand filter applies only when the supplied hand is "L" or
\* "R"; with any other hand, or none, the keys are the labels of the counts
\* among all the pitcher's events; events without a ball or strike count give
\* no key.
C7_KeysMatchValidHand ==
    resp.op = "usage" =>
        BreakdownOf(CountedEvents(resp.req,
            IF resp.req.batter_hand \in {Some("L"), Some("R")}
            THEN {resp.req.batter_hand} ELSE StoredHands))

\* A breakdown for right-handed batters with two pitch types under one key,
\* from a store that also holds a pitch to another hand.
C7_Witness ==
    /\ resp.op = "usage"
    /\ resp.req.batter_hand = Some("R")
    /\ \E k \in DOMAIN resp.body.usage_by_count : Len(resp.body.usage_by_count[k]) = 2
    /\ CountedEvents(resp.req, StoredHands \ {Some("R")}) # {}

(***************************************************************************)
(* pitches: properties                                                     *)
(***************************************************************************)
RECURSIVE Total(_, _)
Total(S, val) ==
    IF S = {} THEN 0
    ELSE LET i == CHOOSE x \in S : TRUE IN val[i] + Total(S \ {i}, val)

\* avg is the mean of the values val[i] over the rows i in present, and null
\* exactly when there is none.
MeanOf(avg, present, val) ==
    IF present = {} THEN avg = None
    ELSE /\ avg # None
         /\ The(avg).n # 0
         /\ The(avg).sum * Cardinality(present) = Total(present, val) * The(avg).n

\* C10: an answered pitches request returns one entry per row the store
\* returned, at most `limit` of them and all located pitches when they are no
\* more than `limit`; each strike-zone average is the mean of the non-null
\* values of that bound among the returned rows and null exactly when there is
\* none, so with no located pitch the list is empty and both averages null.
C10_LocationSummary ==
    (resp.op = "pitches" /\ resp.status = 200) =>
        LET rows == resp.rows
            tops == {i \in 1..Len(rows) : rows[i].sz_top # None}
            bots == {i \in 1..Len(rows) : rows[i].sz_bot # None}
            located == Cardinality({i \in 1..Len(disk.pitches) :
                          /\ disk.pitches[i].plate_x # None
                          /\ disk.pitches[i].plate_z # None
                          /\ disk.pitches[i].pitcher_id = resp.req.pitcher_id
                          /\ disk.pitches[i].balls = Some(resp.req.count[1])
                          /\ disk.pitches[i].strikes = Some(resp.req.count[2])})
        IN  /\ Len(resp.body.pitches) = Len(rows)
            /\ Len(resp.body.pitches) <= resp.req.limit
            /\ Len(resp.body.pitches) <= located
            /\ resp.req.batter_hand = None =>
                  Len(resp.body.pitches)
                     = (IF located < resp.req.limit THEN located ELSE resp.req.limit)
            /\ \A i \in 1..Len(rows) :
                  /\ resp.body.pitches[i].plate_x = The(rows[i].plate_x)
                  /\ resp.body.pitches[i].plate_z = The(rows[i].plate_z)
                  /\ resp.body.pitches[i].pitch_type = rows[i].pitch_type
            /\ MeanOf(resp.body.avg_sz_top, tops, [i \in tops |-> The(rows[i].sz_top)])
            /\ MeanOf(resp.body.avg_sz_bot, bots, [i \in bots |-> The(rows[i].sz_bot)])
            /\ rows = <<>> =>
                  /\ resp.body.pitches = <<>>
                  /\ resp.body.avg_sz_top = None
                  /\ resp.body.avg_sz_bot = None

\* A list cut at the limit whose rows have a null and a non-null top bound and
\* no bottom bound but one.
C10_Witness ==
    /\ resp.op = "pitches"
    /\ resp.status = 200
    /\ Len(resp.rows) = resp.req.limit
    /\ Len(disk.pitches) > resp.req.limit
    /\ \E i, j \in 1..Len(resp.rows) :
          resp.rows[i].sz_top = None /\ resp.rows[j].sz_top # None
    /\ resp.body.avg_sz_top # None
    /\ resp.body.avg_sz_bot # None

(***************************************************************************)
(* Request validation                                                      *)
(***************************************************************************)
\* C9: every store query of recommend and of pitches has balls in 0..3 and
\* strikes in 0..2, and a request of theirs with balls or strikes outside these
\* ranges is rejected without a store query.
C9_OutOfRangeNeverReachesStore ==
    /\ \A i \in 1..Len(qlog) :
          qlog[i].stage \in {"exact", "pooled", "pitches"} =>
              qlog[i].balls \in 0..3 /\ qlog[i].strikes \in 0..2
    /\ (/\ resp.op \in {"recommend", "pitches"}
        /\ ~(resp.req.count[1] \in 0..3 /\ resp.req.count[2] \in 0..2)) =>
            resp.status # 200 /\ qlog = <<>>

====
